---- MODULE Spec2Model ----
(***************************************************************************)
(* Model of the multicentric_harmonization training scripts:               *)
(*   - create_datasets / group_data : the group-aware train/test split     *)
(*   - Train                        : the training loop of both trainers   *)
(*   - run_inference                : the CSV feature dump                 *)
(* Each program has its own specification (SpecSplit, SpecTrain,           *)
(* SpecInfer); the variables of the programs a specification does not run  *)
(* are held at their idle values.                                          *)
(***************************************************************************)
EXTENDS Integers, Sequences, FiniteSets, TLC

VARIABLES
    variant,        \* which trainer file: "harmonization" or "older"
    \* ---- create_datasets
    data_list,      \* the list of item dicts (group_data mutates them in place)
    test_size,      \* the test_size argument, a rational <<num, den>>
    train_data,     \* returned train list
    test_data,      \* returned test list
    cd_pc,          \* "idle" | "call" | "returned" | "raised"
    \* ---- Train: constructor arguments
    num_epoch,              \* self.num_epoch
    n_batches,              \* len(self.data_loader['train'])
    n_test_batches,         \* len(self.data_loader['test'])
    contrastive_latentsize, \* self.contrastive_latentsize
    classifier,             \* self.classifier: None or a module
    \* ---- Train: fields
    epoch,          \* self.epoch
    losses_dict,    \* self.losses_dict (a dict: key -> value)
    train_losses,   \* self.train_losses (four lists)
    tsne_plots,     \* self.tsne_plots (a plot path is named by its epoch)
    acc_dict,       \* self.acc_dict
    optimizer,      \* self.optimizer
    lr_scheduler,   \* self.lr_scheduler
    model_training, \* self.model.training (train() / eval() mode)
    updated,        \* parameter groups whose weights an optimizer step changed
    dataset,        \* self.dataset (the train SmartCacheDataset)
    testdataset,    \* self.testdataset
    saved,          \* checkpoint files written
    gif,            \* the GIF file: whether create_gif wrote it, and its frames
    \* ---- Train: control
    pc,             \* the statement of train() / train_epoch() / train_step() reached
    error,          \* None, or the exception that left train() at pc
    step,           \* enumerate index of the current batch in train_epoch
    running_loss,   \* local of train_epoch
    latents4,       \* channels of latents[4] of the current batch
    nlatents4,      \* contrastive part of the split (a sequence of channels)
    bottleneck,     \* bottleneck part of the split
    recon_input,    \* channels handed to reconstruct_image in this train_step
    loss_calls,     \* loss functions evaluated on the batch in this train_step
    \* ---- run_inference
    datafiles,      \* the data list load_data returned
    loader_order,   \* the order in which the loader yields the items (indices)
    csv,            \* rows written to the CSV file so far
    inf_dataset,    \* the SmartCacheDataset of run_inference
    batch_index,    \* number of batches the for loop has taken
    inf_pc,         \* "idle" | "header" | "start" | "loop" | "done" | "raised"
    \* ---- one call of a function of train.py
    called,         \* the function called, None when none is
    args,           \* its arguments (a record)
    result          \* what the call gave: pending, a returned value, or an exception

splitVars == <<data_list, test_size, train_data, test_data, cd_pc>>

trainArgs == <<num_epoch, n_batches, n_test_batches, contrastive_latentsize, classifier>>

trainFields ==
    <<epoch, losses_dict, train_losses, tsne_plots, acc_dict, optimizer, lr_scheduler,
      model_training, updated, dataset, testdataset, saved, gif>>

trainControl ==
    <<pc, error, step, running_loss, latents4, nlatents4, bottleneck, recon_input,
      loss_calls>>

trainVars == <<trainArgs, trainFields, trainControl>>

inferVars == <<datafiles, loader_order, csv, inf_dataset, batch_index, inf_pc>>

callVars == <<called, args, result>>

vars == <<variant, splitVars, trainVars, inferVars, callVars>>

Variants == {"harmonization", "older"}

\* ------------------------------------------------------------------ bounds
MaxItems == 3

\* --------------------------------------------------------------- helpers
None == "None"

Min(a, b) == IF a < b THEN a ELSE b

Range(s) == {s[i] : i \in 1..Len(s)}

SeqsUpTo(S, n) == UNION {[1..k -> S] : k \in 0..n}

\* ceil(num * n / den) for den > 0
CeilMul(q, n) == -((-(q[1] * n)) \div q[2])

\* Python slicing s[:k]
Prefix(s, k) == SubSeq(s, 1, Min(k, Len(s)))

\* ================================================================= idle

\* no GIF file written
NoGif == [written |-> FALSE, frames |-> <<>>]

\* the Train object when no trainer is built
TrainIdle ==
    /\ num_epoch = 0 /\ n_batches = 0 /\ n_test_batches = 0
    /\ contrastive_latentsize = 0 /\ classifier = None
    /\ epoch = 0 /\ losses_dict = <<>> /\ train_losses = <<>> /\ tsne_plots = <<>>
    /\ acc_dict = <<>> /\ optimizer = None /\ lr_scheduler = None
    /\ model_training = FALSE /\ updated = {} /\ dataset = None /\ testdataset = None
    /\ saved = {} /\ gif = NoGif
    /\ pc = "idle" /\ error = None /\ step = 0 /\ running_loss = 0
    /\ latents4 = <<>> /\ nlatents4 = <<>> /\ bottleneck = <<>> /\ recon_input = <<>>
    /\ loss_calls = {}

\* run_inference not running
InferIdle ==
    /\ datafiles = <<>> /\ loader_order = <<>> /\ csv = <<>>
    /\ inf_dataset = [started |-> FALSE, updates |-> 0, shutdown |-> FALSE]
    /\ batch_index = 0 /\ inf_pc = "idle"

\* the result of a call that has not run yet
Pending == [status |-> "pending"]

\* no function of train.py is called on its own
CallIdle == called = None /\ args = <<>> /\ result = Pending

\* ============================================================ group_data

\* SeriesDescription strings, as sequences of characters.  Scanner codes are
\* the first two characters ("A1", "A2", "B1", ...).
Descriptions ==
    { <<"A", "1", "x">>, <<"A", "1", "y">>, <<"A", "2", "x">>,
      <<"B", "1", "x">>, <<"A">> }

\* An item dict as loaded from the JSON manifest: no group_id yet.  "id" stands
\* for the identity of the dict object (its position in the loaded list).
LoadedList(descs) ==
    [i \in 1..Len(descs) |->
        [id |-> i, SeriesDescription |-> descs[i], group_id |-> None]]

\* ---- extract_base: re.match(r"(.+)(-\s#\d+)$", description)

\* characters \d matches
Digits == {"0", "1", "2", "3", "4", "5", "6", "7", "8", "9"}

\* characters \s matches and str.strip() removes (of the ASCII ones; the
\* vertical tab has no TLA+ string escape and is left out)
Whitespace == {" ", "\t", "\n", "\r", "\f"}

\* positions $ matches at: the end, and just before a final newline
line_ends(description) ==
    {Len(description)} \cup
    (IF description # <<>> /\ description[Len(description)] = "\n"
     THEN {Len(description) - 1} ELSE {})

\* positions where the group (-\s#\d+) can start so that $ matches after it
\* and a non-empty (.+), which takes no newline, precedes it
suffix_starts(description) ==
    { p \in 2..(Len(description) - 3) :
        /\ \A q \in 1..(p - 1) : description[q] # "\n"
        /\ description[p] = "-"
        /\ description[p + 1] \in Whitespace
        /\ description[p + 2] = "#"
        /\ \E e \in line_ends(description) :
              /\ p + 3 <= e
              /\ \A q \in (p + 3)..e : description[q] \in Digits }

\* re.match: the greedy (.+) takes the longest prefix that lets the rest match
re_match(description) ==
    LET starts == suffix_starts(description)
    IN  IF starts = {} THEN [matched |-> FALSE, group1 |-> <<>>]
        ELSE LET p == CHOOSE x \in starts : \A y \in starts : y <= x
             IN  [matched |-> TRUE, group1 |-> SubSeq(description, 1, p - 1)]

RECURSIVE lstrip(_)
lstrip(str) ==
    IF str # <<>> /\ Head(str) \in Whitespace THEN lstrip(Tail(str)) ELSE str

RECURSIVE rstrip(_)
rstrip(str) ==
    IF str # <<>> /\ str[Len(str)] \in Whitespace
    THEN rstrip(SubSeq(str, 1, Len(str) - 1)) ELSE str

\* str.strip()
strip(str) == rstrip(lstrip(str))

\* extract_base that forgets the strip()
extract_base_unstripped(description) ==
    LET base == re_match(description)
    IN  IF base.matched THEN base.group1 ELSE description

extract_base(description) ==
    LET base == re_match(description)
    IN  IF base.matched THEN strip(base.group1) ELSE description

scanner_key_wide(description) == description

scanner_key(description) == Prefix(description, 2)

\* group_key for mode 'scanner', and for mode 'repetition'
group_key(item, mode) ==
    IF mode = "scanner" THEN scanner_key(item.SeriesDescription)
    ELSE extract_base(item.SeriesDescription)

\* position of key in the insertion-ordered group_map, 0 when absent
RECURSIVE map_index(_, _, _)
map_index(group_map, key, k) ==
    IF k > Len(group_map) THEN 0
    ELSE IF group_map[k] = key THEN k
    ELSE map_index(group_map, key, k + 1)

\* the loop of group_data: group_map is the dict in insertion order (the key
\* at position k maps to k - 1 = len(group_map) when it was inserted)
RECURSIVE group_data_loop(_, _, _, _)
group_data_loop(items, mode, i, group_map) ==
    IF i > Len(items) THEN items
    ELSE LET key   == group_key(items[i], mode)
             known == map_index(group_map, key, 1)
             gmap2 == IF known = 0 THEN Append(group_map, key) ELSE group_map
             gid   == map_index(gmap2, key, 1) - 1
         IN  group_data_loop([items EXCEPT ![i].group_id = gid], mode, i + 1, gmap2)

\* group_data that numbers a new key by the count of items seen, not of keys
group_data_by_position(items, mode) ==
    LET keys == [i \in 1..Len(items) |-> group_key(items[i], mode)]
        first(i) == CHOOSE j \in 1..i :
                        keys[j] = keys[i] /\ \A k \in 1..(j - 1) : keys[k] # keys[i]
    IN  [i \in 1..Len(items) |-> [items[i] EXCEPT !.group_id = first(i) - 1]]

\* group_data returns (harmonization) np.array(group_ids); (older) data_list.
\* In both the items are mutated; groups are read back from them.
group_data(items, mode) == group_data_loop(items, mode, 1, <<>>)

groups_of(items) == [i \in 1..Len(items) |-> items[i].group_id]

\* ====================================================== GroupShuffleSplit

\* test_size arguments (floats, as rationals)
TestSizes ==
    { <<0, 1>>, <<-1, 5>>, <<1, 1000000000>>, <<1, 5>>, <<1, 2>>, <<4, 5>>, <<1, 1>> }

\* test_size <= 0.00000001
TinyTestSize(ts) == ts[1] * 100000000 <= ts[2]

\* sklearn's validation of a float test_size: must lie in (0, 1)
ValidFloatTestSize(ts) == ts[1] > 0 /\ ts[1] < ts[2]

\* number of test groups / train groups for n_groups distinct groups
n_test_groups(ts, n_groups) == CeilMul(ts, n_groups)
n_train_groups(ts, n_groups) == n_groups - n_test_groups(ts, n_groups)

\* GroupShuffleSplit raises ValueError
SplitRaises(ts, groups) ==
    LET n_groups == Cardinality(Range(groups)) IN
    \/ ~ValidFloatTestSize(ts)
    \/ n_train_groups(ts, n_groups) = 0

\* indices whose group is in the chosen set, ascending (np.flatnonzero)
RECURSIVE indices_in(_, _, _)
indices_in(groups, chosen, i) ==
    IF i > Len(groups) THEN <<>>
    ELSE IF groups[i] \in chosen
         THEN <<i>> \o indices_in(groups, chosen, i + 1)
         ELSE indices_in(groups, chosen, i + 1)

\* the possible outcomes of next(splitter.split(data_list, groups)): the shuffled
\* permutation of the distinct groups picks which n_test groups are the test side
TestGroupChoices(ts, groups) ==
    { T \in SUBSET Range(groups) :
        Cardinality(T) = n_test_groups(ts, Cardinality(Range(groups))) }

\* a split whose train side forgets to leave out the test groups
split_indices_overlap(groups, test_groups) ==
    [train_idx |-> indices_in(groups, Range(groups), 1),
     test_idx  |-> indices_in(groups, test_groups, 1)]

split_indices(groups, test_groups) ==
    [train_idx |-> indices_in(groups, Range(groups) \ test_groups, 1),
     test_idx  |-> indices_in(groups, test_groups, 1)]

pick(items, idx) == [k \in 1..Len(idx) |-> items[idx[k]]]

\* ======================================================= create_datasets

\* harmonization/swin_contrastive/train.py: early return for tiny test_size
create_datasets_early ==
    /\ variant = "harmonization"
    /\ cd_pc = "call"
    /\ TinyTestSize(test_size)
    /\ train_data' = data_list
    /\ test_data' = <<>>
    /\ cd_pc' = "returned"
    /\ UNCHANGED <<variant, callVars, inferVars, data_list, test_size, trainVars>>

create_datasets_raise ==
    /\ cd_pc = "call"
    /\ variant = "harmonization" => ~TinyTestSize(test_size)
    /\ LET grouped == group_data(data_list, "scanner") IN
       /\ SplitRaises(test_size, groups_of(grouped))
       /\ data_list' = grouped
    /\ cd_pc' = "raised"
    /\ UNCHANGED <<variant, callVars, inferVars, test_size, train_data, test_data, trainVars>>

create_datasets_split ==
    /\ cd_pc = "call"
    /\ variant = "harmonization" => ~TinyTestSize(test_size)
    /\ LET grouped == group_data(data_list, "scanner")
           groups  == groups_of(grouped)
       IN  /\ ~SplitRaises(test_size, groups)
           /\ \E T \in TestGroupChoices(test_size, groups) :
                LET idx == split_indices(groups, T) IN
                /\ train_data' = pick(grouped, idx.train_idx)
                /\ test_data' = pick(grouped, idx.test_idx)
           /\ data_list' = grouped
    /\ cd_pc' = "returned"
    /\ UNCHANGED <<variant, callVars, inferVars, test_size, trainVars>>

SplitIdle ==
    /\ data_list = <<>>
    /\ test_size = <<0, 1>>
    /\ train_data = <<>>
    /\ test_data = <<>>
    /\ cd_pc = "idle"

InitSplit ==
    /\ TrainIdle
    /\ InferIdle
    /\ CallIdle
    /\ variant \in Variants
    /\ data_list \in {LoadedList(d) : d \in SeqsUpTo(Descriptions, MaxItems)}
    /\ test_size \in TestSizes
    /\ train_data = <<>>
    /\ test_data = <<>>
    /\ cd_pc = "call"

NextSplit ==
    \/ create_datasets_early
    \/ create_datasets_raise
    \/ create_datasets_split

SpecSplit == InitSplit /\ [][NextSplit]_vars

\* ------------------------------------------------------ claims C1, C2

\* the scanner key of the claim: the first two characters of SeriesDescription
ScannerCode(item) == Prefix(item.SeriesDescription, 2)

\* C1: whenever create_datasets returns for a test_size > 1e-8, no scanner
\* group (first two characters of SeriesDescription) has items on both sides
\* of the split.
C1_GroupsNotSplit ==
    (cd_pc = "returned" /\ ~TinyTestSize(test_size)) =>
        \A a \in 1..Len(train_data) : \A b \in 1..Len(test_data) :
            ScannerCode(train_data[a]) # ScannerCode(test_data[b])

\* a returned split with both sides non-empty where the test side holds two
\* different descriptions of one scanner
C1_Witness ==
    /\ cd_pc = "returned"
    /\ ~TinyTestSize(test_size)
    /\ Len(train_data) >= 1
    /\ \E a, b \in 1..Len(test_data) :
        /\ test_data[a].SeriesDescription # test_data[b].SeriesDescription
        /\ ScannerCode(test_data[a]) = ScannerCode(test_data[b])

Occurrences(list, i) == Cardinality({k \in 1..Len(list) : list[k].id = i})

\* C2: whenever create_datasets returns, every item of data_list occurs exactly
\* once in train_data and test_data together and nothing else occurs; in the
\* harmonization trainer a test_size <= 1e-8 returns (data_list, []) and leaves
\* every item without a group_id.
C2_Partition ==
    cd_pc = "returned" =>
        /\ \A i \in 1..Len(data_list) :
            Occurrences(train_data, i) + Occurrences(test_data, i) = 1
        /\ \A k \in 1..Len(train_data) :
            /\ train_data[k].id \in 1..Len(data_list)
            /\ train_data[k] = data_list[train_data[k].id]
        /\ \A k \in 1..Len(test_data) :
            /\ test_data[k].id \in 1..Len(data_list)
            /\ test_data[k] = data_list[test_data[k].id]
        /\ (variant = "harmonization" /\ TinyTestSize(test_size)) =>
            /\ train_data = data_list
            /\ test_data = <<>>
            /\ \A i \in 1..Len(data_list) : data_list[i].group_id = None

\* a real split of three items: one in train, two in test
C2_Witness ==
    /\ cd_pc = "returned"
    /\ variant = "harmonization"
    /\ Len(train_data) = 1
    /\ Len(test_data) = 2

\* the early return on a non-empty list
C2_WitnessEarly ==
    /\ cd_pc = "returned"
    /\ TinyTestSize(test_size)
    /\ Len(data_list) = MaxItems
    /\ test_data = <<>>

\* ================================================================= Train

MaxEpoch == 6
MaxBatches == 2
LatentChannels == 2

\* values a loss evaluated on a batch may take (abstracting the floats)
LossValues == {1, 2}

\* accuracies (percent) a test batch may give
AccValues == {0, 100}

TestBatchCounts == {0, 1}

step_interval == 10

\* self.log_summary_interval
log_summary_interval(v) == IF v = "harmonization" THEN 5 ELSE 2

\* the period of `if self.epoch % 5 == 0` around plot_latent_space
plot_interval(v) == 5

\* dict[key] = value
dict_set(d, key, value) ==
    [k \in (DOMAIN d) \cup {key} |-> IF k = key THEN value ELSE d[k]]

has_key(d, key) == key \in DOMAIN d

\* the optimizer main() builds and passes to Train: AdamW(model.parameters())
PassedOptimizer == [kind |-> "AdamW", params |-> {"model.swinViT", "model.decoder"}]

\* optim.Adam(self.reconstruct.parameters())
DecoderOptimizer == [kind |-> "Adam", params |-> {"reconstruct"}]

\* self.optimizer after __init__
init_optimizer(v) == IF v = "harmonization" THEN DecoderOptimizer ELSE PassedOptimizer

\* CosineAnnealingLR(optimizer, ...) built in main() on the passed optimizer
init_lr_scheduler == [optimizer |-> PassedOptimizer, steps |-> 0]

\* a SmartCacheDataset before start()
NewDataset == [started |-> FALSE, updates |-> 0, shutdown |-> FALSE]

\* parameters that receive a gradient from total_loss.backward()
params_with_grad(v) ==
    IF v = "harmonization" THEN {"model.swinViT", "reconstruct"}
    ELSE {"model.swinViT", "classifier"}

\* optimizer.step(): the parameters it changes
optimizer_step(opt, v) == opt.params \cap params_with_grad(v)

\* the channel indices of a tensor with n channels
Channels(n) == [c \in 1..n |-> c]

RECURSIVE SumSeq(_)
SumSeq(sizes) == IF sizes = <<>> THEN 0 ELSE Head(sizes) + SumSeq(Tail(sizes))

\* splitting by Python slices x[:, :k], x[:, k:], which never fails
slice_split(x, sizes) ==
    LET k == IF sizes[1] < 0
             THEN (IF Len(x) + sizes[1] < 0 THEN 0 ELSE Len(x) + sizes[1])
             ELSE Min(sizes[1], Len(x))
    IN  [ok |-> TRUE, parts |-> << SubSeq(x, 1, k), SubSeq(x, k + 1, Len(x)) >>]

\* torch.split(x, [s1, s2], dim=1): fails on a negative size or when the sizes
\* do not sum to the dimension; otherwise consecutive chunks of those sizes
torch_split(x, sizes) ==
    IF (\E i \in 1..Len(sizes) : sizes[i] < 0) \/ SumSeq(sizes) # Len(x)
    THEN [ok |-> FALSE, parts |-> <<>>]
    ELSE [ok |-> TRUE,
          parts |-> << SubSeq(x, 1, sizes[1]),
                       SubSeq(x, sizes[1] + 1, sizes[1] + sizes[2]) >>]

\* total_loss with the epoch test off by one
total_loss_late(v, ep, ld) ==
    IF ep > 0
    THEN IF v = "harmonization"
         THEN ld["classification_loss"] + ld["contrast_loss"] + ld["reconstruction_loss"]
         ELSE ld["classification_loss"] + ld["contrast_loss"]
    ELSE IF v = "harmonization" THEN ld["contrast_loss"] ELSE ld["classification_loss"]

\* the value train_step stores in losses_dict['total_loss']
total_loss(v, ep, ld) ==
    IF ep >= 0
    THEN IF v = "harmonization"
         THEN ld["classification_loss"] + ld["contrast_loss"] + ld["reconstruction_loss"]
         ELSE ld["classification_loss"] + ld["contrast_loss"]
    ELSE IF v = "harmonization" THEN ld["contrast_loss"] ELSE ld["classification_loss"]

\* save_losses that records the average loss only
save_losses_total_only(tl, ld, train_loss) ==
    [tl EXCEPT !.total_losses = Append(tl.total_losses, train_loss)]

\* save_losses(train_loss): one entry appended to each list
save_losses(tl, ld, train_loss) ==
    [total_losses          |-> Append(tl.total_losses, train_loss),
     contrast_losses       |-> Append(tl.contrast_losses, ld["contrast_loss"]),
     classification_losses |-> Append(tl.classification_losses, ld["classification_loss"]),
     reconstruction_losses |-> Append(tl.reconstruction_losses, ld["reconstruction_loss"])]

Running == error = None

InitTrain ==
    /\ SplitIdle
    /\ InferIdle
    /\ CallIdle
    /\ variant \in Variants
    /\ num_epoch \in 0..MaxEpoch
    /\ n_batches \in 0..MaxBatches
    /\ n_test_batches \in (IF variant = "older" THEN TestBatchCounts ELSE {0})
    /\ contrastive_latentsize \in
        (IF variant = "harmonization" THEN (-1)..(LatentChannels + 1) ELSE {LatentChannels})
    /\ classifier \in (IF variant = "older" THEN {None, "classifier"} ELSE {None})
    /\ epoch = 0
    /\ losses_dict = [total_loss |-> 0, src_classification_loss |-> 0, contrast_loss |-> 0]
    /\ train_losses =
        (IF variant = "harmonization"
         THEN [contrast_losses |-> <<>>, classification_losses |-> <<>>,
               reconstruction_losses |-> <<>>, total_losses |-> <<>>]
         ELSE None)
    /\ tsne_plots = <<>>
    /\ acc_dict = [src_best_train_acc |-> 0, src_best_test_acc |-> 0, tgt_best_test_acc |-> 0]
    /\ optimizer = init_optimizer(variant)
    /\ lr_scheduler = init_lr_scheduler
    /\ model_training = TRUE
    /\ updated = {}
    /\ dataset = (IF variant = "harmonization" THEN NewDataset ELSE None)
    /\ testdataset = (IF variant = "harmonization" THEN NewDataset ELSE None)
    /\ saved = {}
    /\ gif = NoGif
    /\ pc = "train"
    /\ error = None
    /\ step = 0
    /\ running_loss = 0
    /\ latents4 = <<>>
    /\ nlatents4 = <<>>
    /\ bottleneck = <<>>
    /\ recon_input = <<>>
    /\ loss_calls = {}

\* ------------------------------------------------------------ Train.train

\* train(): the statements before the while loop
train_start ==
    /\ Running /\ pc = "train"
    /\ IF variant = "harmonization"
       THEN /\ dataset' = [dataset EXCEPT !.started = TRUE]
            /\ testdataset' = [testdataset EXCEPT !.started = TRUE]
            /\ model_training' = TRUE
       ELSE UNCHANGED <<dataset, testdataset, model_training>>
    /\ pc' = "loop"
    /\ UNCHANGED <<variant, callVars, inferVars, splitVars, trainArgs, epoch, losses_dict, train_losses,
                   tsne_plots, acc_dict, optimizer, lr_scheduler, updated, saved, gif,
                   error, step, running_loss, latents4, nlatents4, bottleneck,
                   recon_input, loss_calls>>

\* while self.epoch < self.num_epoch: enter train_epoch, or leave the loop
train_while ==
    /\ Running /\ pc = "loop"
    /\ IF epoch < num_epoch
       THEN pc' = "train_epoch"
       ELSE pc' = (IF variant = "harmonization" THEN "shutdown" ELSE "save_model")
    /\ step' = 0
    /\ running_loss' = 0
    /\ UNCHANGED <<variant, callVars, inferVars, splitVars, trainArgs, trainFields, error, latents4,
                   nlatents4, bottleneck, recon_input, loss_calls>>

\* train_epoch: the for loop takes the next batch
train_epoch_batch ==
    /\ Running /\ pc = "train_epoch"
    /\ step < n_batches
    /\ pc' = "ts_begin"
    /\ UNCHANGED <<variant, callVars, inferVars, splitVars, trainArgs, trainFields, error, step,
                   running_loss, latents4, nlatents4, bottleneck, recon_input,
                   loss_calls>>

\* train_epoch: the loader is exhausted; self.epoch += 1
train_epoch_end ==
    /\ Running /\ pc = "train_epoch"
    /\ step >= n_batches
    /\ epoch' = epoch + 1
    /\ pc' = "after_epoch"
    /\ step' = 0
    /\ running_loss' = 0
    /\ UNCHANGED <<variant, callVars, inferVars, splitVars, trainArgs, losses_dict, train_losses, tsne_plots,
                   acc_dict, optimizer, lr_scheduler, model_training, updated, dataset,
                   testdataset, saved, gif, error, latents4, nlatents4, bottleneck,
                   recon_input, loss_calls>>

\* train_epoch, after train_step returned: running average and save_losses
train_epoch_after_step ==
    /\ Running /\ pc = "te_after_step"
    /\ LET rl == running_loss + losses_dict["total_loss"]
           average_loss == <<rl, step + 1>>
       IN  /\ running_loss' = rl
           /\ IF variant = "harmonization" /\ step % step_interval = 0
              THEN train_losses' = save_losses(train_losses, losses_dict, average_loss)
              ELSE UNCHANGED train_losses
    /\ step' = step + 1
    /\ pc' = "train_epoch"
    /\ UNCHANGED <<variant, callVars, inferVars, splitVars, trainArgs, epoch, losses_dict, tsne_plots,
                   acc_dict, optimizer, lr_scheduler, model_training, updated, dataset,
                   testdataset, saved, gif, error, latents4, nlatents4, bottleneck,
                   recon_input, loss_calls>>
\* -------------------------------------------------------- Train.train_step

\* zero_grad, batch preparation and the encoder forward pass
\* (the older train_epoch calls self.model.train() before each train_step)
train_step_begin ==
    /\ Running /\ pc = "ts_begin"
    /\ model_training' = (IF variant = "older" THEN TRUE ELSE model_training)
    /\ latents4' = Channels(LatentChannels)
    /\ nlatents4' = <<>>
    /\ bottleneck' = <<>>
    /\ recon_input' = <<>>
    /\ loss_calls' = {}
    /\ pc' = (IF variant = "harmonization" THEN "ts_split" ELSE "ts_contrastive")
    /\ UNCHANGED <<variant, callVars, inferVars, splitVars, trainArgs, epoch, losses_dict, train_losses,
                   tsne_plots, acc_dict, optimizer, lr_scheduler, updated, dataset,
                   testdataset, saved, gif, error, step, running_loss>>

\* nlatents4, bottleneck = torch.split(latents[4], [cls, C - cls], dim=1)
train_step_split ==
    /\ Running /\ pc = "ts_split"
    /\ LET r == torch_split(latents4,
                    <<contrastive_latentsize, Len(latents4) - contrastive_latentsize>>)
       IN  IF r.ok
           THEN /\ nlatents4' = r.parts[1]
                /\ bottleneck' = r.parts[2]
                /\ pc' = "ts_classification"
                /\ UNCHANGED error
           ELSE /\ error' = "RuntimeError"
                /\ UNCHANGED <<nlatents4, bottleneck, pc>>
    /\ UNCHANGED <<variant, callVars, inferVars, splitVars, trainArgs, trainFields, step, running_loss,
                   latents4, recon_input, loss_calls>>

\* older trainer: contrastive_step reads self.loss_func, which no code sets
train_step_contrastive ==
    /\ Running /\ pc = "ts_contrastive"
    /\ error' = "AttributeError"
    /\ UNCHANGED <<variant, callVars, inferVars, splitVars, trainArgs, trainFields, pc, step, running_loss,
                   latents4, nlatents4, bottleneck, recon_input, loss_calls>>

\* accu = 0; self.losses_dict['classification_loss'] = 0.0
\* (contrastive_step and classification_step are commented out)
train_step_classification ==
    /\ Running /\ pc = "ts_classification"
    /\ losses_dict' = dict_set(losses_dict, "classification_loss", 0)
    /\ pc' = "ts_reconstruct"
    /\ UNCHANGED <<variant, callVars, inferVars, splitVars, trainArgs, epoch, train_losses, tsne_plots,
                   acc_dict, optimizer, lr_scheduler, model_training, updated, dataset,
                   testdataset, saved, gif, error, step, running_loss, latents4,
                   nlatents4, bottleneck, recon_input, loss_calls>>

\* the argument of self.reconstruct_image(...) in train_step
reconstruct_argument(lat4, btneck) == lat4

\* reconstructed_imgs = self.reconstruct_image(latents[4]);
\* self.reconstruction_step(reconstructed_imgs, imgs_s)
train_step_reconstruct ==
    /\ Running /\ pc = "ts_reconstruct"
    /\ recon_input' = reconstruct_argument(latents4, bottleneck)
    /\ \E v \in LossValues :
        losses_dict' = dict_set(losses_dict, "reconstruction_loss", v)
    /\ loss_calls' = loss_calls \cup {"recons_loss"}
    /\ pc' = "ts_total"
    /\ UNCHANGED <<variant, callVars, inferVars, splitVars, trainArgs, epoch, train_losses, tsne_plots,
                   acc_dict, optimizer, lr_scheduler, model_training, updated, dataset,
                   testdataset, saved, gif, error, step, running_loss, latents4,
                   nlatents4, bottleneck>>

\* if self.epoch >= 0: total_loss = sum of the losses, else the reduced loss
train_step_total ==
    /\ Running /\ pc = "ts_total"
    /\ losses_dict' = dict_set(losses_dict, "total_loss",
                               total_loss(variant, epoch, losses_dict))
    /\ pc' = "ts_backward"
    /\ UNCHANGED <<variant, callVars, inferVars, splitVars, trainArgs, epoch, train_losses, tsne_plots,
                   acc_dict, optimizer, lr_scheduler, model_training, updated, dataset,
                   testdataset, saved, gif, error, step, running_loss, latents4,
                   nlatents4, bottleneck, recon_input, loss_calls>>

\* total_loss.backward(); self.optimizer.step(); return
train_step_backward ==
    /\ Running /\ pc = "ts_backward"
    /\ updated' = updated \cup optimizer_step(optimizer, variant)
    /\ pc' = "te_after_step"
    /\ UNCHANGED <<variant, callVars, inferVars, splitVars, trainArgs, epoch, losses_dict, train_losses,
                   tsne_plots, acc_dict, optimizer, lr_scheduler, model_training,
                   dataset, testdataset, saved, gif, error, step, running_loss,
                   latents4, nlatents4, bottleneck, recon_input, loss_calls>>

\* ------------------------------------------- Train.train, after train_epoch

\* if self.epoch % self.log_summary_interval == 0: (harmonization: pass;
\* older: test_epoch and log_summary_writer)
train_after_epoch ==
    /\ Running /\ pc = "after_epoch"
    /\ pc' = (IF variant = "older" /\ epoch % log_summary_interval(variant) = 0
              THEN "test_epoch" ELSE "lr_step")
    /\ UNCHANGED <<variant, callVars, inferVars, splitVars, trainArgs, trainFields, error, step,
                   running_loss, latents4, nlatents4, bottleneck, recon_input,
                   loss_calls>>

\* older test_epoch: model.eval(), the classifier on every test batch, the mean
test_epoch ==
    /\ Running /\ pc = "test_epoch"
    /\ model_training' = FALSE
    /\ IF n_test_batches > 0 /\ classifier = None
       THEN /\ error' = "TypeError"
            /\ UNCHANGED <<acc_dict, pc>>
       ELSE /\ \E a \in (IF n_test_batches = 0 THEN {"nan"} ELSE AccValues) :
                acc_dict' = dict_set(acc_dict, "best_test_acc", a)
            /\ pc' = "log_summary"
            /\ UNCHANGED error
    /\ UNCHANGED <<variant, callVars, inferVars, splitVars, trainArgs, epoch, losses_dict, train_losses,
                   tsne_plots, optimizer, lr_scheduler, updated, dataset, testdataset,
                   saved, gif, step, running_loss, latents4, nlatents4, bottleneck,
                   recon_input, loss_calls>>

\* older: self.log_summary_writer() is not defined anywhere
log_summary_writer ==
    /\ Running /\ pc = "log_summary"
    /\ error' = "AttributeError"
    /\ UNCHANGED <<variant, callVars, inferVars, splitVars, trainArgs, trainFields, pc, step, running_loss,
                   latents4, nlatents4, bottleneck, recon_input, loss_calls>>

\* self.lr_scheduler.step()
train_lr_step ==
    /\ Running /\ pc = "lr_step"
    /\ lr_scheduler' = [lr_scheduler EXCEPT !.steps = @ + 1]
    /\ pc' = (IF variant = "harmonization" THEN "update_cache" ELSE "loop")
    /\ UNCHANGED <<variant, callVars, inferVars, splitVars, trainArgs, epoch, losses_dict, train_losses,
                   tsne_plots, acc_dict, optimizer, model_training, updated, dataset,
                   testdataset, saved, gif, error, step, running_loss, latents4,
                   nlatents4, bottleneck, recon_input, loss_calls>>

\* update_cache called on the wrong dataset
train_update_cache_test ==
    /\ Running /\ pc = "update_cache"
    /\ testdataset' = [testdataset EXCEPT !.updates = @ + 1]
    /\ pc' = (IF epoch % plot_interval(variant) = 0 THEN "plot" ELSE "loop")
    /\ UNCHANGED <<variant, callVars, inferVars, splitVars, trainArgs, epoch, losses_dict, train_losses,
                   tsne_plots, acc_dict, optimizer, lr_scheduler, model_training,
                   updated, dataset, saved, gif, error, step, running_loss,
                   latents4, nlatents4, bottleneck, recon_input, loss_calls>>

\* self.dataset.update_cache(); if self.epoch % 5 == 0: try plot_latent_space
train_update_cache ==
    /\ Running /\ pc = "update_cache"
    /\ dataset' = [dataset EXCEPT !.updates = @ + 1]
    /\ pc' = (IF epoch % plot_interval(variant) = 0 THEN "plot" ELSE "loop")
    /\ UNCHANGED <<variant, callVars, inferVars, splitVars, trainArgs, epoch, losses_dict, train_losses,
                   tsne_plots, acc_dict, optimizer, lr_scheduler, model_training,
                   updated, testdataset, saved, gif, error, step, running_loss,
                   latents4, nlatents4, bottleneck, recon_input, loss_calls>>

\* plot_latent_space(epoch) runs to its end: model.eval(), ..., tsne_plots.append
plot_latent_space_ok ==
    /\ Running /\ pc = "plot"
    /\ model_training' = FALSE
    /\ tsne_plots' = Append(tsne_plots, epoch)
    /\ pc' = "loop"
    /\ UNCHANGED <<variant, callVars, inferVars, splitVars, trainArgs, epoch, losses_dict, train_losses,
                   acc_dict, optimizer, lr_scheduler, updated, dataset, testdataset,
                   saved, gif, error, step, running_loss, latents4, nlatents4,
                   bottleneck, recon_input, loss_calls>>

\* plot_latent_space raising with no try/except around the call
plot_latent_space_uncaught ==
    /\ Running /\ pc = "plot"
    /\ model_training' = FALSE
    /\ error' = "Exception"
    /\ UNCHANGED <<variant, callVars, inferVars, splitVars, trainArgs, epoch, losses_dict, train_losses,
                   tsne_plots, acc_dict, optimizer, lr_scheduler, updated, dataset,
                   testdataset, saved, gif, pc, step, running_loss, latents4,
                   nlatents4, bottleneck, recon_input, loss_calls>>

\* plot_latent_space raises after model.eval() and before tsne_plots.append;
\* train() catches the Exception and prints it
plot_latent_space_fail ==
    /\ Running /\ pc = "plot"
    /\ model_training' = FALSE
    /\ pc' = "loop"
    /\ UNCHANGED <<variant, callVars, inferVars, splitVars, trainArgs, epoch, losses_dict, train_losses,
                   tsne_plots, acc_dict, optimizer, lr_scheduler, updated, dataset,
                   testdataset, saved, gif, error, step, running_loss, latents4,
                   nlatents4, bottleneck, recon_input, loss_calls>>
\* ------------------------------------------------ Train.train, after the loop

\* self.dataset.shutdown(); self.testdataset.shutdown()
train_shutdown ==
    /\ Running /\ pc = "shutdown"
    /\ dataset' = [dataset EXCEPT !.shutdown = TRUE]
    /\ testdataset' = [testdataset EXCEPT !.shutdown = TRUE]
    /\ pc' = "save_model"
    /\ UNCHANGED <<variant, callVars, inferVars, splitVars, trainArgs, epoch, losses_dict, train_losses,
                   tsne_plots, acc_dict, optimizer, lr_scheduler, model_training,
                   updated, saved, gif, error, step, running_loss, latents4,
                   nlatents4, bottleneck, recon_input, loss_calls>>

\* self.save_model(...)
train_save_model ==
    /\ Running /\ pc = "save_model"
    /\ saved' = saved \cup {"model"}
    /\ pc' = (IF variant = "harmonization" THEN "save_reconstruction" ELSE "return")
    /\ UNCHANGED <<variant, callVars, inferVars, splitVars, trainArgs, epoch, losses_dict, train_losses,
                   tsne_plots, acc_dict, optimizer, lr_scheduler, model_training,
                   updated, dataset, testdataset, gif, error, step, running_loss,
                   latents4, nlatents4, bottleneck, recon_input, loss_calls>>

\* self.save_reconstruction_model(...)
train_save_reconstruction ==
    /\ Running /\ pc = "save_reconstruction"
    /\ saved' = saved \cup {"reconstruction"}
    /\ pc' = "create_gif"
    /\ UNCHANGED <<variant, callVars, inferVars, splitVars, trainArgs, epoch, losses_dict, train_losses,
                   tsne_plots, acc_dict, optimizer, lr_scheduler, model_training,
                   updated, dataset, testdataset, gif, error, step, running_loss,
                   latents4, nlatents4, bottleneck, recon_input, loss_calls>>

\* what imageio.mimsave does with an empty list of images depends on the
\* imageio release: RuntimeError("Zero images were written."), ValueError
\* from stacking no array, or a file without frames
EmptyGifOutcomes == {"RuntimeError", "ValueError", "written"}

\* create_gif: imageio.mimsave of the images read from tsne_plots, in order
create_gif ==
    /\ Running /\ pc = "create_gif"
    /\ IF tsne_plots = <<>>
       THEN \E outcome \in EmptyGifOutcomes :
              IF outcome = "written"
              THEN /\ gif' = [written |-> TRUE, frames |-> <<>>]
                   /\ pc' = "plot_losses"
                   /\ UNCHANGED error
              ELSE /\ error' = outcome
                   /\ UNCHANGED <<gif, pc>>
       ELSE /\ gif' = [written |-> TRUE, frames |-> tsne_plots]
            /\ pc' = "plot_losses"
            /\ UNCHANGED error
    /\ UNCHANGED <<variant, callVars, inferVars, splitVars, trainArgs, epoch, losses_dict, train_losses,
                   tsne_plots, acc_dict, optimizer, lr_scheduler, model_training,
                   updated, dataset, testdataset, saved, step, running_loss,
                   latents4, nlatents4, bottleneck, recon_input, loss_calls>>

\* plot_losses: loss.detach() on every saved loss; the saved contrast losses
\* are the int 0 of __init__, which has no detach()
plot_losses ==
    /\ Running /\ pc = "plot_losses"
    /\ IF Len(train_losses.contrast_losses) > 0
       THEN /\ error' = "AttributeError"
            /\ UNCHANGED pc
       ELSE /\ pc' = "return"
            /\ UNCHANGED error
    /\ UNCHANGED <<variant, callVars, inferVars, splitVars, trainArgs, trainFields, step, running_loss,
                   latents4, nlatents4, bottleneck, recon_input, loss_calls>>

\* return self.acc_dict['best_test_acc']
train_return ==
    /\ Running /\ pc = "return"
    /\ IF has_key(acc_dict, "best_test_acc")
       THEN /\ pc' = "done"
            /\ UNCHANGED error
       ELSE /\ error' = "KeyError"
            /\ UNCHANGED pc
    /\ UNCHANGED <<variant, callVars, inferVars, splitVars, trainArgs, trainFields, step, running_loss,
                   latents4, nlatents4, bottleneck, recon_input, loss_calls>>

NextTrain ==
    \/ train_start
    \/ train_while
    \/ train_epoch_batch
    \/ train_epoch_end
    \/ train_epoch_after_step
    \/ train_step_begin
    \/ train_step_split
    \/ train_step_contrastive
    \/ train_step_classification
    \/ train_step_reconstruct
    \/ train_step_total
    \/ train_step_backward
    \/ train_after_epoch
    \/ test_epoch
    \/ log_summary_writer
    \/ train_lr_step
    \/ train_update_cache
    \/ plot_latent_space_ok
    \/ plot_latent_space_fail
    \/ train_shutdown
    \/ train_save_model
    \/ train_save_reconstruction
    \/ create_gif
    \/ plot_losses
    \/ train_return

SpecTrain == InitTrain /\ [][NextTrain]_vars

\* a sequential program: the next statement always runs
SpecTrainFair == SpecTrain /\ WF_vars(NextTrain)
\* ---------------------------------------------------- claims C3 .. C8, C10

\* C3: when train_step forms total_loss, the contrastive, the classification
\* and the reconstruction loss have each been evaluated on the current batch
\* and stored in losses_dict.
C3_ThreeLossesComputed ==
    (variant = "harmonization" /\ pc = "ts_total") =>
        /\ {"contrast_loss", "classification_loss", "recons_loss"} \subseteq loss_calls
        /\ has_key(losses_dict, "contrast_loss")
        /\ has_key(losses_dict, "classification_loss")
        /\ has_key(losses_dict, "reconstruction_loss")

\* positions of train_step after the split of latents[4] succeeded
AfterSplit == {"ts_classification", "ts_reconstruct", "ts_total", "ts_backward"}

\* C4: once torch.split has succeeded, 0 <= contrastive_latentsize <= channels
\* of latents[4], the contrastive part has exactly contrastive_latentsize
\* channels, the bottleneck part the remaining ones, and the two parts are
\* disjoint and together are the channels of latents[4].
C4_LatentSplit ==
    (variant = "harmonization" /\ pc \in AfterSplit) =>
        /\ 0 <= contrastive_latentsize
        /\ contrastive_latentsize <= Len(latents4)
        /\ Len(nlatents4) = contrastive_latentsize
        /\ Len(bottleneck) = Len(latents4) - contrastive_latentsize
        /\ Range(nlatents4) \cap Range(bottleneck) = {}
        /\ Range(nlatents4) \cup Range(bottleneck) = Range(latents4)
        /\ nlatents4 \o bottleneck = latents4

\* a split with both parts non-empty
C4_Witness ==
    /\ variant = "harmonization"
    /\ pc = "ts_classification"
    /\ nlatents4 # <<>>
    /\ bottleneck # <<>>

\* C5: the input of reconstruct_image is the bottleneck part of the split and
\* holds no channel of the contrastive part.
C5_DecoderFedBottleneck ==
    (variant = "harmonization" /\ pc \in {"ts_total", "ts_backward"}) =>
        /\ Range(recon_input) \cap Range(nlatents4) = {}
        /\ recon_input = bottleneck

\* C6: the optimizer train_step steps holds the encoder's parameters.
C6_OptimizerHoldsEncoder ==
    pc = "ts_backward" => "model.swinViT" \in optimizer.params

\* plot attempts that have ended (an attempt follows every epoch count that
\* is a positive multiple of the plot interval)
PlotAttemptsEnded ==
    (epoch \div plot_interval(variant))
    - (IF pc \in {"after_epoch", "lr_step", "update_cache", "plot"}
          /\ epoch % plot_interval(variant) = 0
       THEN 1 ELSE 0)

FailedPlots == PlotAttemptsEnded - Len(tsne_plots)

TrainingOver == error # None \/ pc = "done"

CheckpointsSaved == saved = {"model", "reconstruction"}

\* C7: a plot_latent_space call that adds no plot (it raised) leaves train() at
\* the loop head without an error and with epoch, the loss history and
\* tsne_plots unchanged; a run in which a plot failed ends only after all
\* num_epoch epochs, the shutdown of both datasets and both checkpoint saves;
\* and every plot attempt is followed by the checkpoint saves.
C7_PlotFailureTolerated ==
    /\ [][(variant = "harmonization" /\ pc = "plot" /\ tsne_plots' = tsne_plots) =>
            /\ error' = None
            /\ pc' = "loop"
            /\ epoch' = epoch
            /\ train_losses' = train_losses
            /\ losses_dict' = losses_dict]_vars
    /\ []((variant = "harmonization" /\ TrainingOver /\ FailedPlots > 0) =>
            /\ epoch = num_epoch
            /\ dataset.shutdown /\ testdataset.shutdown
            /\ CheckpointsSaved)
    /\ ((variant = "harmonization" /\ pc = "plot") ~> CheckpointsSaved)

\* a plot failed at epoch 5, a further epoch ran, and the checkpoints are saved
C7_Witness ==
    /\ variant = "harmonization"
    /\ FailedPlots > 0
    /\ n_batches > 0
    /\ epoch > plot_interval(variant)
    /\ dataset.shutdown
    /\ CheckpointsSaved

\* positions inside the while loop of train()
LoopPcs ==
    {"loop", "train_epoch", "ts_begin", "ts_split", "ts_classification",
     "ts_reconstruct", "ts_total", "ts_backward", "te_after_step", "after_epoch",
     "lr_step", "update_cache", "plot"}

\* positions between the end of train_epoch and update_cache
AwaitingUpdate == {"after_epoch", "lr_step", "update_cache"}

\* C8: inside the loop both datasets are started and not shut down; the train
\* dataset has had one update_cache per completed train_epoch (the one of the
\* epoch just ended is pending right after train_epoch, none happens during a
\* train_epoch); a dataset is shut down only after the last epoch, both are,
\* and no checkpoint is saved before both are shut down.
C8_CacheStreamingOrder ==
    variant = "harmonization" =>
        /\ pc \in LoopPcs =>
            /\ dataset.started /\ testdataset.started
            /\ ~dataset.shutdown /\ ~testdataset.shutdown
        /\ dataset.updates = (IF pc \in AwaitingUpdate THEN epoch - 1 ELSE epoch)
        /\ (dataset.shutdown \/ testdataset.shutdown) =>
            /\ dataset.shutdown /\ testdataset.shutdown
            /\ epoch >= num_epoch
        /\ saved # {} => (dataset.shutdown /\ testdataset.shutdown)

\* two epochs of batches streamed, both datasets shut down, checkpoints saved
C8_Witness ==
    /\ variant = "harmonization"
    /\ n_batches > 0
    /\ dataset.updates >= 2
    /\ dataset.shutdown /\ testdataset.shutdown
    /\ CheckpointsSaved

\* the sum of the loss terms the claim names
LossSum ==
    IF variant = "harmonization"
    THEN losses_dict["classification_loss"] + losses_dict["contrast_loss"]
         + losses_dict["reconstruction_loss"]
    ELSE losses_dict["classification_loss"] + losses_dict["contrast_loss"]

\* C10: epoch >= 0 in every state, and when train_step has returned,
\* losses_dict['total_loss'] is the sum of the loss terms in losses_dict.
C10_TotalIsSum ==
    /\ epoch >= 0
    /\ pc = "te_after_step" => losses_dict["total_loss"] = LossSum

\* a train_step of a later epoch returned with a total loss of 2
C10_Witness ==
    /\ pc = "te_after_step"
    /\ epoch >= 1
    /\ losses_dict["total_loss"] = 2
    /\ losses_dict["reconstruction_loss"] = 2
\* ========================================================= run_inference

\* SeriesNumber values of the manifest entries
SeriesNumbers == {"s1", "s2"}

fieldnames ==
    <<"SeriesNumber", "deepfeatures", "ROI", "SeriesDescription",
      "ManufacturerModelName", "Manufacturer", "SliceThickness">>

\* writer.writeheader()
header_row == [kind |-> "header", fields |-> fieldnames]

\* the record built from a batch of one item (batch[...][0])
record_row(item) ==
    [kind |-> "record", SeriesNumber |-> item.SeriesNumber, item |-> item.id]

LoaderOrders(n) ==
    {f \in [1..n -> 1..n] : \A i, j \in 1..n : f[i] = f[j] => i = j}

\* run_inference up to the open(...) of the CSV file.  SmartCacheDataset
\* shuffles the data list (shuffle=True is its default), ThreadDataLoader
\* yields it with batch_size=1 and without further shuffling.
InitInfer ==
    /\ SplitIdle
    /\ TrainIdle
    /\ CallIdle
    /\ variant = "harmonization"
    /\ datafiles \in
        { [i \in 1..Len(d) |-> [id |-> i, SeriesNumber |-> d[i]]] :
            d \in SeqsUpTo(SeriesNumbers, MaxItems) }
    /\ loader_order \in LoaderOrders(Len(datafiles))
    /\ csv = <<>>
    /\ inf_dataset = NewDataset
    /\ batch_index = 0
    /\ inf_pc = "header"

\* writer.writeheader()
infer_writeheader ==
    /\ inf_pc = "header"
    /\ csv' = Append(csv, header_row)
    /\ inf_pc' = "start"
    /\ UNCHANGED <<variant, callVars, splitVars, trainVars, datafiles, loader_order,
                   inf_dataset, batch_index>>

\* dataset.start()
infer_start ==
    /\ inf_pc = "start"
    /\ inf_dataset' = [inf_dataset EXCEPT !.started = TRUE]
    /\ inf_pc' = "loop"
    /\ UNCHANGED <<variant, callVars, splitVars, trainVars, datafiles, loader_order, csv,
                   batch_index>>

\* the loop body with dataset.shutdown() indented into it
infer_batch_shutdown ==
    /\ inf_pc = "loop"
    /\ batch_index < Len(loader_order)
    /\ csv' = Append(csv, record_row(datafiles[loader_order[batch_index + 1]]))
    /\ batch_index' = batch_index + 1
    /\ inf_dataset' = [inf_dataset EXCEPT !.shutdown = TRUE]
    /\ UNCHANGED <<variant, callVars, splitVars, trainVars, datafiles, loader_order, inf_pc>>

\* one iteration of `for batch in tqdm(dataload)`: features, record,
\* writer.writerow(record)
infer_batch ==
    /\ inf_pc = "loop"
    /\ batch_index < Len(loader_order)
    /\ csv' = Append(csv, record_row(datafiles[loader_order[batch_index + 1]]))
    /\ batch_index' = batch_index + 1
    /\ UNCHANGED <<variant, callVars, splitVars, trainVars, datafiles, loader_order,
                   inf_dataset, inf_pc>>

\* the forward pass of a batch raises (a volume that does not fit
\* view(-1, 1, 64, 64, 32)): run_inference ends with the rows written so far
infer_batch_raise ==
    /\ inf_pc = "loop"
    /\ batch_index < Len(loader_order)
    /\ inf_pc' = "raised"
    /\ UNCHANGED <<variant, callVars, splitVars, trainVars, datafiles, loader_order, csv,
                   inf_dataset, batch_index>>

\* the loader is exhausted: dataset.shutdown(), the file is closed, "Done!"
infer_shutdown ==
    /\ inf_pc = "loop"
    /\ batch_index >= Len(loader_order)
    /\ inf_dataset' = [inf_dataset EXCEPT !.shutdown = TRUE]
    /\ inf_pc' = "done"
    /\ UNCHANGED <<variant, callVars, splitVars, trainVars, datafiles, loader_order, csv,
                   batch_index>>

NextInfer ==
    \/ infer_writeheader
    \/ infer_start
    \/ infer_batch
    \/ infer_batch_raise
    \/ infer_shutdown

SpecInfer == InitInfer /\ [][NextInfer]_vars

\* ------------------------------------- claims C11, C12, C14, C19, C20
\* positions of train() after its while loop
AfterLoopPcs ==
    {"shutdown", "save_model", "save_reconstruction", "create_gif",
     "plot_losses", "return", "done"}

\* the sizes given to torch.split in train_step fit the channels of latents[4]
SplitSizesFit ==
    variant = "harmonization" => contrastive_latentsize \in 0..LatentChannels

\* C11: epoch stays within 0..num_epoch, and train() leaves its loop, in
\* whatever way, only after num_epoch completed calls of train_epoch, that
\* is with epoch = num_epoch.
C11_LoopRunsNumEpoch ==
    /\ epoch \in 0..num_epoch
    /\ (SplitSizesFit /\ (error # None \/ pc \in AfterLoopPcs)) => epoch = num_epoch

\* C12: whenever train() steps the learning-rate scheduler, the scheduler is
\* attached to the optimizer that train_step uses for zero_grad() and step().
C12_SchedulerOnTrainingOptimizer ==
    pc = "lr_step" => lr_scheduler.optimizer = optimizer

\* C14: plot_latent_space is attempted only when the number of completed
\* epochs is a positive multiple of 5; tsne_plots holds the epochs of the
\* successful attempts, increasing and without duplicates; create_gif does
\* not fail, also on an empty tsne_plots, and the GIF it writes has exactly
\* the plots of tsne_plots as frames, in that order.
C14_PlotsEveryFiveThenGif ==
    variant = "harmonization" =>
        /\ pc = "plot" => (epoch > 0 /\ epoch % 5 = 0)
        /\ \A i \in 1..Len(tsne_plots) :
              /\ tsne_plots[i] > 0 /\ tsne_plots[i] % 5 = 0 /\ tsne_plots[i] <= epoch
              /\ \A j \in 1..Len(tsne_plots) : i < j => tsne_plots[i] < tsne_plots[j]
        /\ Len(tsne_plots) <= PlotAttemptsEnded
        /\ pc = "create_gif" => error = None
        /\ pc \in {"plot_losses", "return", "done"} =>
              (gif.written /\ gif.frames = tsne_plots)

\* positions inside train_step after the encoder's forward pass has begun
TrainStepPcs ==
    {"ts_split", "ts_contrastive", "ts_classification", "ts_reconstruct",
     "ts_total", "ts_backward"}

\* C19: the model is in training mode during every train_step.
C19_TrainModeInTrainStep ==
    pc \in TrainStepPcs => model_training

\* C20: for num_epoch >= 1, train() reaches its return statement without an
\* error and acc_dict holds 'best_test_acc', stored by a test_epoch, so that
\* the return yields it.
C20_ReturnsBestTestAcc ==
    (num_epoch >= 1 /\ pc \in {"return", "done"}) =>
        (error = None /\ has_key(acc_dict, "best_test_acc"))

\* ------------------------------------------------- long epochs, claim C13
\* longest train loader of the long runs: reaches batch index step_interval
MaxLongBatches == 11

\* most epochs of a run over a long train loader
ShortEpochs == 1

\* <<num_epoch, n_batches>> of the long runs of the harmonization trainer
LongRuns ==
    ((0..MaxEpoch) \X (0..1)) \cup ((0..ShortEpochs) \X (0..MaxLongBatches))

\* the harmonization Train as main() builds it, before train()
InitTrainLong ==
    /\ SplitIdle
    /\ InferIdle
    /\ CallIdle
    /\ variant = "harmonization"
    /\ \E run \in LongRuns : num_epoch = run[1] /\ n_batches = run[2]
    /\ n_test_batches = 0
    /\ contrastive_latentsize \in 0..LatentChannels
    /\ classifier = None
    /\ epoch = 0
    /\ losses_dict = [total_loss |-> 0, src_classification_loss |-> 0, contrast_loss |-> 0]
    /\ train_losses = [contrast_losses |-> <<>>, classification_losses |-> <<>>,
                       reconstruction_losses |-> <<>>, total_losses |-> <<>>]
    /\ tsne_plots = <<>>
    /\ acc_dict = [src_best_train_acc |-> 0, src_best_test_acc |-> 0, tgt_best_test_acc |-> 0]
    /\ optimizer = init_optimizer(variant)
    /\ lr_scheduler = init_lr_scheduler
    /\ model_training = TRUE
    /\ updated = {}
    /\ dataset = NewDataset
    /\ testdataset = NewDataset
    /\ saved = {}
    /\ gif = NoGif
    /\ pc = "train"
    /\ error = None
    /\ step = 0
    /\ running_loss = 0
    /\ latents4 = <<>>
    /\ nlatents4 = <<>>
    /\ bottleneck = <<>>
    /\ recon_input = <<>>
    /\ loss_calls = {}

\* the statements of the harmonization Train.train
NextTrainLong ==
    \/ train_start
    \/ train_while
    \/ train_epoch_batch
    \/ train_epoch_end
    \/ train_epoch_after_step
    \/ train_step_begin
    \/ train_step_split
    \/ train_step_classification
    \/ train_step_reconstruct
    \/ train_step_total
    \/ train_step_backward
    \/ train_after_epoch
    \/ train_lr_step
    \/ train_update_cache
    \/ plot_latent_space_ok
    \/ plot_latent_space_fail
    \/ train_shutdown
    \/ train_save_model
    \/ train_save_reconstruction
    \/ create_gif
    \/ plot_losses
    \/ train_return

SpecTrainLong == InitTrainLong /\ [][NextTrainLong]_vars

\* batches with an index below n that is a multiple of step_interval
SavesDue(n) == (n + step_interval - 1) \div step_interval

\* C13: the four lists of train_losses have equal length; their length is the
\* number of batches processed so far whose index within their epoch is a
\* multiple of step_interval (one save_losses call, of one entry per list, for
\* each such batch and for no other); and once an entry is saved, losses_dict
\* holds the classification_loss and reconstruction_loss of a train_step.
C13_LossBookkeeping ==
    LET saves == Len(train_losses.total_losses)
    IN  /\ Len(train_losses.contrast_losses) = saves
        /\ Len(train_losses.classification_losses) = saves
        /\ Len(train_losses.reconstruction_losses) = saves
        /\ saves = epoch * SavesDue(n_batches) + SavesDue(step)
        /\ saves > 0 =>
              /\ has_key(losses_dict, "classification_loss")
              /\ has_key(losses_dict, "reconstruction_loss")

\* the batches 0 and step_interval of an epoch were saved, the ones between not
C13_Witness ==
    /\ step = step_interval + 1
    /\ pc = "train_epoch"
    /\ epoch = 0
    /\ Len(train_losses.reconstruction_losses) = 2

\* ------------------------------------------------------------- claim C9

\* C9: the CSV is the header row followed by one record per batch taken, the
\* k-th record being that of the k-th item the loader yields; the dataset is
\* started only after the header is written and before any record, and shut
\* down only after the record of every item of the data list is written, which
\* is the state in which run_inference ends normally.
C9_CsvDump ==
    /\ inf_pc = "header" => csv = <<>>
    /\ inf_pc # "header" =>
        /\ Len(csv) = 1 + batch_index
        /\ csv[1] = header_row
        /\ \A k \in 1..batch_index :
            csv[k + 1] = record_row(datafiles[loader_order[k]])
    /\ inf_dataset.started => Len(csv) >= 1
    /\ Len(csv) > 1 => inf_dataset.started
    /\ inf_dataset.shutdown =>
        /\ Len(csv) = 1 + Len(datafiles)
        /\ \A i \in 1..Len(datafiles) :
            Cardinality({k \in 2..Len(csv) : csv[k].item = i}) = 1
    /\ inf_pc = "done" => inf_dataset.shutdown

\* a finished dump of three items that the loader yielded out of list order
C9_Witness ==
    /\ inf_pc = "done"
    /\ Len(csv) = 4
    /\ loader_order[1] # 1

\* ============================ single calls of the functions of train.py

\* longest SeriesDescription extract_base is called on
MaxDescLen == 6

\* characters of those descriptions: a letter, a digit, and the three
\* characters of the repetition suffix (SeriesDescription is a DICOM LO
\* string, which holds no control character: the space is its only whitespace)
DescriptionChars == {"A", "1", " ", "-", "#"}

CalledDescriptions == SeqsUpTo(DescriptionChars, MaxDescLen)

\* descriptions of the lists group_data is called on: scanner codes and
\* repetitions "A- #1", "A- #2", "A - #1", "B- #1", "A- #"
GroupedDescriptions ==
    Descriptions \cup
    { <<"A", "-", " ", "#", "1">>, <<"A", "-", " ", "#", "2">>,
      <<"A", " ", "-", " ", "#", "1">>, <<"B", "-", " ", "#", "1">>,
      <<"A", "-", " ", "#">> }

Modes == {"scanner", "repetition"}

\* what group_data returns after the loop: (harmonization) np.array(group_ids),
\* (older) data_list itself
group_data_return(v, grouped) ==
    IF v = "harmonization"
    THEN [type |-> "ndarray", elems |-> groups_of(grouped)]
    ELSE [type |-> "list", elems |-> grouped]

\* ---- compute_accuracy

\* most rows of logits and of true_labels
MaxRows == 2

\* columns of logits (classes)
NumClasses == 2

LogitValues == {0, 1}

AccMetrics == {"total_mean", "class_mean", "top1"}

LogitRows == [1..NumClasses -> LogitValues]

\* torch.max(logits, dim=1)[1]: for every row the index (from 0) of a largest
\* entry; which one among equal largest entries is not specified
Argmaxes(logits) ==
    { p \in [1..Len(logits) -> 0..(NumClasses - 1)] :
        \A i \in 1..Len(logits) : \A k \in 1..NumClasses :
            logits[i][k] <= logits[i][p[i] + 1] }

\* (predictions == true_labels).sum().item()
count_equal(predictions, true_labels) ==
    Cardinality({i \in 1..Len(predictions) : predictions[i] = true_labels[i]})

Raised(exception) == [status |-> "raised", value |-> exception]

\* compute_accuracy returning the fraction instead of the percentage
compute_accuracy_fraction(logits, true_labels, acc_metric, predictions) ==
    IF Len(logits) # Len(true_labels) THEN Raised("AssertionError")
    ELSE IF acc_metric = "total_mean"
    THEN IF Len(logits) = 0 THEN Raised("ZeroDivisionError")
         ELSE [status |-> "returned",
               value |-> <<count_equal(predictions, true_labels), Len(logits)>>]
    ELSE IF acc_metric = "class_mean" THEN Raised("TypeError")
    ELSE Raised("ValueError")

\* compute_accuracy(logits, true_labels, acc_metric), predictions being the
\* result of torch.max; the accuracy is the rational <<numerator, denominator>>.
\* 'class_mean' ends in torch.mean of a Python list, a TypeError.
compute_accuracy(logits, true_labels, acc_metric, predictions) ==
    IF Len(logits) # Len(true_labels) THEN Raised("AssertionError")
    ELSE IF acc_metric = "total_mean"
    THEN IF Len(logits) = 0 THEN Raised("ZeroDivisionError")
         ELSE [status |-> "returned",
               value |-> <<100 * count_equal(predictions, true_labels), Len(logits)>>]
    ELSE IF acc_metric = "class_mean" THEN Raised("TypeError")
    ELSE Raised("ValueError")

\* ---- contrastive_step (harmonization trainer)

\* largest D, H and W of latents[4]
MaxSide == 2

\* ids of the ROIs the samples of a batch are cut from
RoiIds == 1..MaxItems

\* torch.unique(ids): the distinct ids, ascending
RECURSIVE sorted(_)
sorted(S) ==
    IF S = {} THEN <<>>
    ELSE LET least == CHOOSE x \in S : \A y \in S : x <= y
         IN  <<least>> \o sorted(S \ {least})

torch_unique(ids) == sorted(Range(ids))

\* positions of the samples boolids selects, ascending
RECURSIVE selected(_, _, _)
selected(ids, id, b) ==
    IF b > Len(ids) THEN <<>>
    ELSE (IF ids[b] = id THEN <<b>> ELSE <<>>) \o selected(ids, id, b + 1)

\* btneck.permute(0, 2, 3, 4, 1).reshape(-1, latentsize): one row per sample
\* and position, sample-major; a row is named <<sample, position>>
embedding_rows(samples, num_elements) ==
    [r \in 1..(Len(samples) * num_elements) |->
        << samples[((r - 1) \div num_elements) + 1], ((r - 1) % num_elements) + 1 >>]

\* torch.arange(offset, offset + num_elements): the commented-out labelling
contrast_ind_arange(num_elements, offset) ==
    [e \in 1..num_elements |-> offset + e - 1]

\* torch.full((num_elements,), offset)
contrast_ind(num_elements, offset) == [e \in 1..num_elements |-> offset]

\* x.repeat(n)
repeat(x, n) ==
    [r \in 1..(Len(x) * n) |-> x[((r - 1) % Len(x)) + 1]]

\* torch.empty(n): n entries nothing has written yet
torch_empty(n) == [r \in 1..n |-> [writes |-> 0, val |-> <<>>]]

\* t[start_idx:end_idx] = values
assign_slice(t, start_idx, end_idx, values) ==
    [r \in 1..Len(t) |->
        IF start_idx < r /\ r <= end_idx
        THEN [writes |-> t[r].writes + 1, val |-> <<values[r - start_idx]>>]
        ELSE t[r]]

\* the loop over torch.unique(ids) of contrastive_step
RECURSIVE contrastive_loop(_, _, _, _)
contrastive_loop(unique, ids, num_elements, st) ==
    IF unique = <<>> THEN st
    ELSE LET samples    == selected(ids, Head(unique), 1)
             embeddings == embedding_rows(samples, num_elements)
             labels     == repeat(contrast_ind(num_elements, st.offset), Len(samples))
             end_idx    == st.start_idx + Len(embeddings)
         IN  contrastive_loop(Tail(unique), ids, num_elements,
                [all_embeddings |->
                     assign_slice(st.all_embeddings, st.start_idx, end_idx, embeddings),
                 all_labels |->
                     assign_slice(st.all_labels, st.start_idx, end_idx, labels),
                 start_idx |-> end_idx,
                 offset |-> st.offset + num_elements])

\* contrastive_step(latents, ids, latentsize) up to the call of the loss;
\* shape is <<D, H, W>> of latents[4], whose channels are latentsize
contrastive_step(ids, shape) ==
    LET num_elements       == shape[1] * shape[2] * shape[3]
        total_num_elements == Len(ids) * num_elements
    IN  contrastive_loop(torch_unique(ids), ids, num_elements,
            [all_embeddings |-> torch_empty(total_num_elements),
             all_labels |-> torch_empty(total_num_elements),
             start_idx |-> 0,
             offset |-> 0])

\* ---- classification_step

\* most classification_step calls on one Train object
MaxCalls == 2

\* self.classifier = None
NoModule == [kind |-> "None", serial |-> 0]

\* a classifier passed to Train(...)
PassedClassifier == [kind |-> "passed", serial |-> 0]

\* self.autoclassifier(in_features, num_classes): a new module at every call
autoclassifier(serial) == [kind |-> "autoclassifier", serial |-> serial]

\* the attributes of the Train object classification_step reads and writes,
\* and the number of classifiers autoclassifier has built
NewTrain(classifier_arg) ==
    [classifier |-> classifier_arg, classfier |-> NoModule, created |-> 0]

\* classification_step(features, labels) on the object self: the object
\* after the call and the module that computed the logits, or the exception.
\* The older trainer assigns the new classifier to self.classfier, and calling
\* self.classifier, still None, is a TypeError.
classification_step(v, self) ==
    LET made == self.classifier = NoModule
        new  == autoclassifier(self.created + 1)
        after == IF ~made THEN self
                 ELSE IF v = "harmonization"
                 THEN [self EXCEPT !.classifier = new, !.created = @ + 1]
                 ELSE [self EXCEPT !.classfier = new, !.created = @ + 1]
    IN  IF after.classifier = NoModule
        THEN [status |-> "raised", value |-> "TypeError", self |-> after]
        ELSE [status |-> "returned", value |-> after.classifier, self |-> after]

InitCall ==
    /\ SplitIdle
    /\ TrainIdle
    /\ InferIdle
    /\ variant \in Variants
    /\ \/ /\ called = "extract_base"
          /\ args \in {[description |-> d] : d \in CalledDescriptions}
       \/ /\ called = "group_data"
          /\ args \in {[data_list |-> LoadedList(d), mode |-> m] :
                          d \in SeqsUpTo(GroupedDescriptions, MaxItems), m \in Modes}
       \/ /\ called = "compute_accuracy"
          /\ args \in {[logits |-> l, true_labels |-> t, acc_metric |-> m] :
                          l \in SeqsUpTo(LogitRows, MaxRows),
                          t \in SeqsUpTo(0..(NumClasses - 1), MaxRows),
                          m \in AccMetrics}
       \/ /\ called = "classification_step"
          /\ args \in {[classifier |-> c, calls |-> n] :
                          c \in {NoModule, PassedClassifier}, n \in 1..MaxCalls}
       \/ /\ called = "contrastive_step"
          /\ variant = "harmonization"
          /\ args \in {[ids |-> i, shape |-> sh] :
                          i \in SeqsUpTo(RoiIds, MaxItems),
                          sh \in (0..MaxSide) \X (0..MaxSide) \X (0..MaxSide)}
    /\ result = Pending

call_extract_base ==
    /\ called = "extract_base" /\ result = Pending
    /\ result' = [status |-> "returned", value |-> extract_base(args.description)]
    /\ UNCHANGED <<variant, splitVars, trainVars, inferVars, called, args>>

\* group_data(data_list, mode): the items are mutated in place (data_list of
\* the result is the caller's list after the call)
call_group_data ==
    /\ called = "group_data" /\ result = Pending
    /\ LET grouped == group_data(args.data_list, args.mode)
       IN  result' = [status |-> "returned",
                      value |-> group_data_return(variant, grouped),
                      data_list |-> grouped]
    /\ UNCHANGED <<variant, splitVars, trainVars, inferVars, called, args>>

call_compute_accuracy ==
    /\ called = "compute_accuracy" /\ result = Pending
    /\ \E predictions \in Argmaxes(args.logits) :
          result' = compute_accuracy(args.logits, args.true_labels, args.acc_metric,
                                     predictions)
    /\ UNCHANGED <<variant, splitVars, trainVars, inferVars, called, args>>

call_contrastive_step ==
    /\ called = "contrastive_step" /\ result = Pending
    /\ result' = [status |-> "returned", value |-> contrastive_step(args.ids, args.shape)]
    /\ UNCHANGED <<variant, splitVars, trainVars, inferVars, called, args>>

\* the next of args.calls classification_step calls on one Train object
call_classification_step ==
    /\ called = "classification_step"
    /\ result.status # "raised"
    /\ LET done == IF result = Pending THEN 0 ELSE result.calls
           self == IF result = Pending THEN NewTrain(args.classifier) ELSE result.self
           out  == classification_step(variant, self)
       IN  /\ done < args.calls
           /\ result' = [status |-> out.status, value |-> out.value,
                          self |-> out.self, calls |-> done + 1]
    /\ UNCHANGED <<variant, splitVars, trainVars, inferVars, called, args>>

NextCall ==
    \/ call_classification_step
    \/ call_extract_base
    \/ call_group_data
    \/ call_compute_accuracy
    \/ call_contrastive_step

SpecCall == InitCall /\ [][NextCall]_vars

Returned(f) == called = f /\ result.status = "returned"

\* ------------------------------------------------------------- claim C15
\* index of the first item with the scanner code of item i
FirstWithCode(items, i) ==
    CHOOSE j \in 1..i :
        /\ ScannerCode(items[j]) = ScannerCode(items[i])
        /\ \A k \in 1..(j - 1) : ScannerCode(items[k]) # ScannerCode(items[i])

\* same group_id exactly for equal first two characters, and ids counted
\* from 0 in the order in which the codes first appear
ScannerGroupIds(items) ==
    /\ \A i, j \in 1..Len(items) :
          (items[i].group_id = items[j].group_id)
              <=> (ScannerCode(items[i]) = ScannerCode(items[j]))
    /\ \A i \in 1..Len(items) :
          items[i].group_id =
              Cardinality({ScannerCode(items[k]) : k \in 1..(FirstWithCode(items, i) - 1)})

\* the returned value is an array holding the group_id of item i at index i
ReturnsGroupIdArray(value, items) ==
    /\ value.type = "ndarray"
    /\ Len(value.elems) = Len(items)
    /\ \A i \in 1..Len(items) : value.elems[i] = items[i].group_id

\* C15 as stated: in 'scanner' mode two items get the same group_id iff their
\* first two characters are equal, ids are 0..k-1 in order of first
\* appearance, and group_data returns the array of the items' group_ids.
C15_ScannerGroupArray ==
    (Returned("group_data") /\ args.mode = "scanner") =>
        /\ ScannerGroupIds(result.data_list)
        /\ ReturnsGroupIdArray(result.value, result.data_list)

\* C15 amended: the group_ids are as stated in both trainers; the
\* harmonization group_data returns the array of the items' group_ids, the
\* older group_data returns data_list itself, whose items carry the group_id.
C15_ScannerGroups ==
    (Returned("group_data") /\ args.mode = "scanner") =>
        /\ ScannerGroupIds(result.data_list)
        /\ \A i \in 1..Len(args.data_list) :
              /\ result.data_list[i].id = args.data_list[i].id
              /\ result.data_list[i].SeriesDescription = args.data_list[i].SeriesDescription
        /\ IF variant = "harmonization"
           THEN ReturnsGroupIdArray(result.value, result.data_list)
           ELSE result.value.type = "list" /\ result.value.elems = result.data_list

\* three items, the scanner of the first seen again after another one
C15_Witness ==
    /\ Returned("group_data") /\ args.mode = "scanner"
    /\ variant = "harmonization"
    /\ result.value.elems = <<0, 1, 0>>
    /\ args.data_list[1].SeriesDescription # args.data_list[3].SeriesDescription

\* ------------------------------------------------------------- claim C16
\* lengths of the non-empty <base> of a description "<base>- #<digits>"
RepetitionBases(d) ==
    { k \in 1..(Len(d) - 4) :
        /\ d[k + 1] = "-" /\ d[k + 2] = " " /\ d[k + 3] = "#"
        /\ \A q \in (k + 4)..Len(d) : d[q] \in Digits }

\* r is b without its leading and trailing whitespace
IsStripOf(r, b) ==
    /\ r # <<>> => (r[1] \notin Whitespace /\ r[Len(r)] \notin Whitespace)
    /\ \E i \in 1..(Len(b) + 1) : \E j \in 0..Len(b) :
          /\ r = SubSeq(b, i, j)
          /\ \A q \in 1..(i - 1) : b[q] \in Whitespace
          /\ \A q \in (j + 1)..Len(b) : b[q] \in Whitespace

\* descriptions that differ only in the trailing repetition number
SameButNumber(a, b) ==
    \E k \in RepetitionBases(a) \cap RepetitionBases(b) : SubSeq(a, 1, k) = SubSeq(b, 1, k)

SurelyCorrect(logits, true_labels) ==
    { i \in 1..Len(logits) :
        \A k \in 1..NumClasses :
            k # true_labels[i] + 1 => logits[i][k] < logits[i][true_labels[i] + 1] }

PossiblyCorrect(logits, true_labels) ==
    { i \in 1..Len(logits) :
        \A k \in 1..NumClasses : logits[i][k] <= logits[i][true_labels[i] + 1] }

\* C17: with acc_metric 'total_mean' and the same number n >= 1 of rows,
\* compute_accuracy returns 100 * c / n, c being the number of rows whose
\* highest-logit class is the true label (a row where the true label ties for
\* the highest logit may count or not), a value within [0, 100]; different
\* row counts fail the assertion; a metric other than 'total_mean' and
\* 'class_mean' raises ValueError.
C17_TotalMeanAccuracy ==
    (called = "compute_accuracy" /\ result # Pending) =>
        LET n == Len(args.logits)
        IN  /\ n # Len(args.true_labels) => result = Raised("AssertionError")
            /\ (n = Len(args.true_labels) /\ n >= 1 /\ args.acc_metric = "total_mean") =>
                  /\ result.status = "returned"
                  /\ \E c \in Cardinality(SurelyCorrect(args.logits, args.true_labels))
                              ..Cardinality(PossiblyCorrect(args.logits, args.true_labels)) :
                        result.value[1] * n = 100 * c * result.value[2]
                  /\ 0 <= result.value[1]
                  /\ result.value[1] <= 100 * result.value[2]
                  /\ result.value[2] > 0
            /\ (n = Len(args.true_labels)
                    /\ args.acc_metric \notin {"total_mean", "class_mean"}) =>
                  result = Raised("ValueError")

\* two rows without ties, one predicted right and one wrong: 50 percent
C17_Witness ==
    /\ Returned("compute_accuracy")
    /\ Len(args.logits) = 2
    /\ Cardinality(SurelyCorrect(args.logits, args.true_labels)) = 1
    /\ Cardinality(PossiblyCorrect(args.logits, args.true_labels)) = 1
    /\ result.value[1] * 2 = 100 * result.value[2]

\* ------------------------------------------------------------- claim C18
\* C18: after contrastive_step every one of the batch*D*H*W rows of
\* all_embeddings and of all_labels has been written exactly once, the final
\* start_idx is total_num_elements, every row <<sample, position>> of the
\* batch is one row of all_embeddings, and two rows have the same label
\* exactly when their samples have the same id.
C18_LabelsPerRoi ==
    Returned("contrastive_step") =>
        LET out   == result.value
            total == Len(args.ids) * args.shape[1] * args.shape[2] * args.shape[3]
            sample(r) == out.all_embeddings[r].val[1][1]
            label(r)  == out.all_labels[r].val[1]
        IN  /\ Len(out.all_embeddings) = total
            /\ Len(out.all_labels) = total
            /\ out.start_idx = total
            /\ \A r \in 1..total :
                  out.all_embeddings[r].writes = 1 /\ out.all_labels[r].writes = 1
            /\ \A b \in 1..Len(args.ids) :
                  \A e \in 1..(args.shape[1] * args.shape[2] * args.shape[3]) :
                      Cardinality({r \in 1..total :
                                      out.all_embeddings[r].val[1] = <<b, e>>}) = 1
            /\ \A r, q \in 1..total :
                  (label(r) = label(q)) <=> (args.ids[sample(r)] = args.ids[sample(q)])

\* two ROIs in the batch, one of them with two samples, several positions each
C18_Witness ==
    /\ Returned("contrastive_step")
    /\ Cardinality(Range(args.ids)) = 2
    /\ Len(args.ids) = 3
    /\ args.shape[1] * args.shape[2] * args.shape[3] >= 2
    /\ args.ids[1] > args.ids[2]

\* ------------------------------------------------------------- claim C21
\* C21: on a Train built with classifier=None, after any number of
\* classification_step calls no call has failed, self.classifier is the one
\* classifier autoclassifier built in the first call, the logits of the call
\* were computed by it, and autoclassifier has been called exactly once.
C21_ClassifierCreatedOnce ==
    (called = "classification_step" /\ args.classifier = NoModule /\ result # Pending) =>
        /\ result.status = "returned"
        /\ result.self.classifier = autoclassifier(1)
        /\ result.value = result.self.classifier
        /\ result.self.created = 1

====
